---------------------------- MODULE Spec2Model ----------------------------
(***************************************************************************)
(* Frog Quest Battle: the simulation step (game.rs move_player / physics,  *)
(* driven by net.rs move_sprites), two peers stepping it in lockstep, the  *)
(* rollback session that re-runs it, input capture, the single-player      *)
(* game, the menu, the multiplayer handshake and the renderer's buffer.    *)
(***************************************************************************)
EXTENDS Integers, Sequences, FiniteSets, TLC

VARIABLES
    world,          \* the player entities: handle -> [bounds, velocity] components
    peer_world,     \* the other peer's copy of the same entities
    frame,          \* number of simulation frames advanced so far
    local_handle,   \* the seat whose PlayerType is Local
    local_inputs,   \* session: local input byte of every advanced frame
    remote_inputs,  \* session: confirmed remote input byte per frame, or Null
    used_inputs,    \* session: remote byte the last simulation of each frame used
    snapshots,      \* session: saved world at the start of every advanced frame
    rollbacks,      \* session: number of rollbacks performed
    sampled,        \* session: per wall frame, the byte read locally and the bytes received for it
    input_stream,   \* InputStream: the queued Inputs, oldest first
    pushed,         \* history: the Inputs put on the stream since it was last drained
    presses,        \* history: number of Inputs put on the stream so far
    input_set,      \* the EnumSet the input system built on its last run
    input_byte,     \* the byte the input system returned on its last run, or Null
    sent,           \* history of a delivery run: the Inputs sent on the channel, in order
    received,       \* history of a delivery run: the Inputs get has returned, in order
    got,            \* what the last call of get returned
    menu_pos,       \* Menu.pos
    app_state,      \* State<AppState>: the current state
    scheduled,      \* State<AppState>: the queued transition, or "None"
    requested,      \* history: every call of app_state.set, as [pos, state]
    menu_panicked,  \* Menu::update has panicked
    text_colors,    \* the colour of the TextBox of every menu entry
    marker_y,       \* origin.y of the Bounds of the MenuMarker
    socket,         \* Option<WebRtcNonBlockingSocket>: "Some" or "None"
    pending_peers,  \* peers that have connected and are not accepted yet
    players,        \* length of socket.players()
    connection_status, \* ConnectionStatus
    sessions_started,  \* number of calls of start_p2p_session
    accepts,        \* number of calls of accept_new_connections
    peer_dropped,   \* a peer has gone away after the session was started
    frame_delay,    \* the session's frame delay of every seat
    buffer,         \* CanvasRenderer.buffer: buffer[off + 1] is the byte written at offset off
    painted,        \* history: position -> whether the last color_pixel on it returned, and its colour
                    \* (the background's calls are kept in background.points)
    renderer_panicked, \* a drawing call has panicked
    drawn,          \* history: the draw systems that have run in this frame
    font,           \* Assets.font: the sprite sheet loaded, named by its ink pattern
    tile_call,      \* a call of draw_tile: its arguments, and what it returned
    background,     \* draw_background's loop: its iterator, the points coloured so far, how far it is
    iterated        \* a PointIterator run on its own: its rectangle, and the points it yielded

sim_vars == <<world, peer_world, frame>>

session_vars == <<local_handle, local_inputs, remote_inputs, used_inputs, snapshots, rollbacks,
                  sampled>>

delivery_vars == <<sent, received, got>>

input_vars == <<input_stream, pushed, presses, input_set, input_byte, delivery_vars>>

menu_vars == <<menu_pos, app_state, scheduled, requested, menu_panicked, text_colors, marker_y>>

net_vars == <<socket, pending_peers, players, connection_status, sessions_started, accepts,
              peer_dropped, frame_delay>>

canvas_vars == <<buffer, painted, renderer_panicked>>

render_vars == <<canvas_vars, drawn, font, tile_call, background, iterated>>

vars == <<sim_vars, session_vars, input_vars, menu_vars, net_vars, render_vars>>

(***************************************************************************)
(* Bounds of the model.                                                    *)
(***************************************************************************)
\* ticks explored when both players press keys
MaxFrame == 3
\* ticks explored when only the player of seat 0 presses keys
MaxSoloFrame == 6
\* frames a rollback session advances
MaxSessionFrame == 3
\* input bytes the players produce are 0..MaxInputByte
MaxInputByte == 4
\* input bytes exchanged in a rollback session are 0..MaxSessionInputByte
MaxSessionInputByte == 1
\* Inputs put on the stream in an input-capture run
MaxPresses == 5
\* a drifting player starts with a horizontal velocity of at most MaxDrift either way
MaxDrift == 2
\* the frames of a drifting player are counted modulo MaxDriftFrame + 1
MaxDriftFrame == 1
\* Inputs sent on the channel in a delivery run
MaxSent == 4
\* ticks of a single-player game
MaxLocalFrame == 21
\* Inputs put on the stream during a single-player game
MaxLocalPresses == 2
\* Inputs put on the stream while the menu is shown
MaxMenuPresses == 3
\* runs of wait_for_players on a socket that is still there
MaxHandshakeTicks == 12
\* peers that connect to the room
MaxPeers == 3
\* frames a session with frame delay advances
MaxDelayFrame == 4
\* rectangles iterated on their own are at most MaxRectSide wide and high
MaxRectSide == 3
\* sprites drawn on their own are at most MaxTileSide wide and high
MaxTileSide == 2
\* pixels are drawn at most PixelMargin away from a corner of RENDER_RECT, on either side
PixelMargin == 1
\* distinct pixels coloured in a rendering run
MaxPainted == 1

(***************************************************************************)
(* Program constants.                                                      *)
(***************************************************************************)
NUM_PLAYERS == 2

Handles == 0 .. (NUM_PLAYERS - 1)

RENDER_RECT ==
    [origin |-> [x |-> 0, y |-> 0], size |-> [width |-> 315, height |-> 143]]

\* graphics::PALLET
PALLET ==
    <<[r |-> 6, g |-> 35, b |-> 39], [r |-> 28, g |-> 124, b |-> 148],
      [r |-> 254, g |-> 160, b |-> 0], [r |-> 250, g |-> 232, b |-> 150]>>

\* PALLET[k], indexed from 0 as in the source
Pallet(k) == PALLET[k + 1]

\* the position menu::spawn_sprites gives the menu
MENU_POS == [x |-> 10, y |-> 60]

\* enum Input: the bit of each variant in the EnumSet's u8 representation
InputBit == [Up |-> 0, Down |-> 1, Left |-> 2, Right |-> 3, Primary |-> 4]

Input == DOMAIN InputBit

InputBytes == 0 .. MaxInputByte

SessionInputBytes == 0 .. MaxSessionInputByte

BitValue == [Up |-> 1, Down |-> 2, Left |-> 4, Right |-> 8, Primary |-> 16]

\* a slip in the decoding: only the four direction bits of the byte are read
from_u8_directions(byte) == {i \in Input : ((byte % 16) \div BitValue[i]) % 2 = 1}

\* EnumSet::from_u8: the set of variants whose bit is set in the byte
from_u8(byte) == {i \in Input : (byte \div BitValue[i]) % 2 = 1}

(***************************************************************************)
(* The world the players are spawned into.                                 *)
(***************************************************************************)
spawn_sprites ==
    [h \in Handles |->
        [bounds |-> [origin |-> [x |-> IF h = 0 THEN 10 ELSE 30, y |-> 10],
                     size |-> [width |-> 10, height |-> 10]],
         velocity |-> [x |-> 0, y |-> 0]]]

(***************************************************************************)
(* The simulation step.                                                    *)
(***************************************************************************)
\* game::move_player: the new Velocity of one player under its input set
move_player(input, v) ==
    LET dy == (IF "Up" \in input THEN -1 ELSE 0) + (IF "Down" \in input THEN 1 ELSE 0)
        dx == (IF "Left" \in input THEN -1 ELSE 0) + (IF "Right" \in input THEN 1 ELSE 0)
    IN  [x |-> v.x + dx, y |-> v.y + dy]

\* euclid Rect::intersects, as called on RENDER_RECT in physics
Intersects(a, b) ==
    /\ a.origin.x < b.origin.x + b.size.width
    /\ b.origin.x < a.origin.x + a.size.width
    /\ a.origin.y < b.origin.y + b.size.height
    /\ b.origin.y < a.origin.y + a.size.height

\* the body of the loop of game::physics: one player's Bounds and Velocity
physics(p) ==
    LET b == p.bounds
        v == p.velocity
        moved == [b EXCEPT !.origin = [x |-> b.origin.x + v.x, y |-> b.origin.y + v.y]]
        vy == IF \/ moved.origin.y <= 0
                 \/ moved.origin.y + moved.size.height > RENDER_RECT.size.height
              THEN -1 * v.y ELSE v.y
        ox == IF ~Intersects(RENDER_RECT, moved)
              THEN -moved.size.width ELSE moved.origin.x
    IN  [bounds |-> [moved EXCEPT !.origin.x = ox],
         velocity |-> [v EXCEPT !.y = vy]]

\* a slip in move_sprites: the position in the query's iteration used as the index
InputIndexByPosition(handle, position) == position - 1

\* move_sprites: the index into the frame's inputs is the player's handle
InputIndex(handle, position) == handle

\* the first loop of move_sprites over the query, in iteration order
RECURSIVE MoveAll(_, _, _, _)
MoveAll(w, inputs, order, i) ==
    IF i > Len(order) THEN w
    ELSE MoveAll([w EXCEPT ![order[i]].velocity =
                      move_player(from_u8(inputs[InputIndex(order[i], i)]), @)],
                 inputs, order, i + 1)

\* the loop of game::physics over the query, in iteration order
RECURSIVE PhysicsAll(_, _, _)
PhysicsAll(w, order, i) ==
    IF i > Len(order) THEN w
    ELSE PhysicsAll([w EXCEPT ![order[i]] = physics(@)], order, i + 1)

\* net.rs move_sprites: one tick of the rollback schedule
move_sprites(w, inputs, order) == PhysicsAll(MoveAll(w, inputs, order, 1), order, 1)

\* the orders in which a query may iterate over the player entities
QueryOrders ==
    {o \in [1 .. NUM_PLAYERS -> Handles] : \A h \in Handles : \E i \in 1 .. NUM_PLAYERS : o[i] = h}

(***************************************************************************)
(* Lockstep: both peers run the same tick with the same inputs.            *)
(***************************************************************************)
Null == -1

\* everything outside the simulation and its session
rest_vars == <<input_vars, menu_vars, net_vars, render_vars>>

\* InputStream::new: an empty channel
InputInit ==
    /\ input_stream = << >>
    /\ pushed = {}
    /\ presses = 0
    /\ input_set = {}
    /\ input_byte = Null
    /\ sent = << >>
    /\ received = << >>
    /\ got = "NotCalled"

\* the app starts in the Menu state, the first entry selected
MenuInit ==
    /\ menu_pos = 0
    /\ app_state = "Menu"
    /\ scheduled = "None"
    /\ requested = << >>
    /\ menu_panicked = FALSE
    /\ text_colors = <<Pallet(3), Pallet(1)>>
    /\ marker_y = MENU_POS.y

\* before MultiplayerGame is entered there is no socket
NetInit ==
    /\ socket = "None"
    /\ pending_peers = 0
    /\ players = 0
    /\ connection_status = "WaitingForPlayers"
    /\ sessions_started = 0
    /\ accepts = 0
    /\ peer_dropped = FALSE
    /\ frame_delay = [h \in Handles |-> 0]

\* draw_background is not running
NoBackground == [i |-> [x |-> 0, y |-> 0], points |-> << >>, outcome |-> "None"]

\* no PointIterator has been run on its own
NoIteration ==
    [rect |-> [origin |-> [x |-> 0, y |-> 0], size |-> [width |-> 0, height |-> 0]],
     points |-> << >>, outcome |-> "None"]

\* draw_tile has not been called on its own
NoTileCall ==
    [sheet |-> << >>, tile |-> "", origin |-> [x |-> 0, y |-> 0],
     color |-> [r |-> 0, g |-> 0, b |-> 0], size |-> [width |-> 0, height |-> 0],
     outcome |-> "None"]

\* CanvasRenderer::new: every byte of the buffer is u8::MAX
RenderInit ==
    /\ buffer = << >>
    /\ painted = << >>
    /\ renderer_panicked = FALSE
    /\ drawn = {}
    /\ font = "blank"
    /\ tile_call = NoTileCall
    /\ background = NoBackground
    /\ iterated = NoIteration

Init ==
    /\ world = spawn_sprites
    /\ peer_world = spawn_sprites
    /\ frame = 0
    /\ local_handle = 0
    /\ local_inputs = << >>
    /\ remote_inputs = [g \in 0 .. (MaxSessionFrame - 1) |-> Null]
    /\ used_inputs = << >>
    /\ snapshots = << >>
    /\ rollbacks = 0
    /\ sampled = << >>
    /\ InputInit /\ MenuInit /\ NetInit /\ RenderInit

Tick(inputs, order, peer_order) ==
    /\ world' = move_sprites(world, inputs, order)
    /\ peer_world' = move_sprites(peer_world, inputs, peer_order)
    /\ frame' = frame + 1
    /\ UNCHANGED <<session_vars, rest_vars>>

Next ==
    /\ frame < MaxFrame
    /\ \E inputs \in [Handles -> InputBytes], order \in QueryOrders, peer_order \in QueryOrders :
           Tick(inputs, order, peer_order)

Spec == Init /\ [][Next]_vars

\* the same, when the player of seat 1 never touches the keys
SoloNext ==
    /\ frame < MaxSoloFrame
    /\ \E b \in InputBytes, order \in QueryOrders, peer_order \in QueryOrders :
           Tick([h \in Handles |-> IF h = 0 THEN b ELSE 0], order, peer_order)

SoloSpec == Init /\ [][SoloNext]_vars

(***************************************************************************)
(* The rollback session driving move_sprites: it saves the registered      *)
(* components of the Rollback entities before every frame, predicts the    *)
(* remote input it has not received, and on a wrong prediction loads the   *)
(* saved frame and runs the schedule again.  The prediction window is not  *)
(* modelled: frames advance freely up to MaxSessionFrame, which only adds  *)
(* behaviours.                                                             *)
(***************************************************************************)
\* a slip in the registration: Velocity is not a rollback type, so a load keeps it
LoadWorldBoundsOnly(current, saved) ==
    [h \in Handles |-> [bounds |-> saved[h].bounds, velocity |-> current[h].velocity]]

\* a slip in the registration: Bounds is not a rollback type, so a load keeps it
LoadWorldVelocityOnly(current, saved) ==
    [h \in Handles |-> [bounds |-> current[h].bounds, velocity |-> saved[h].velocity]]

\* loading a snapshot restores the registered rollback types, Bounds and Velocity
LoadWorld(current, saved) ==
    [h \in Handles |-> [bounds |-> saved[h].bounds, velocity |-> saved[h].velocity]]

\* the frame's input vector, indexed by seat
InputVector(local, remote) == [h \in Handles |-> IF h = local_handle THEN local ELSE remote]

\* prediction for frame g: the most recently confirmed remote input, else the empty set
RECURSIVE Predict(_, _)
Predict(g, confirmed) ==
    IF g = 0 THEN 0
    ELSE IF confirmed[g - 1] # Null THEN confirmed[g - 1]
    ELSE Predict(g - 1, confirmed)

\* the remote byte frame g is simulated with
RemoteInputFor(g, confirmed) ==
    IF confirmed[g] # Null THEN confirmed[g] ELSE Predict(g, confirmed)

\* re-run frames g .. frame-1 from world w, saving each frame again
RECURSIVE Resimulate(_, _, _, _, _, _)
Resimulate(g, w, snaps, used, confirmed, order) ==
    IF g >= frame THEN [world |-> w, snapshots |-> snaps, used_inputs |-> used]
    ELSE Resimulate(g + 1,
                    move_sprites(w, InputVector(local_inputs[g + 1],
                                                RemoteInputFor(g, confirmed)), order),
                    [snaps EXCEPT ![g + 1] = w],
                    [used EXCEPT ![g + 1] = RemoteInputFor(g, confirmed)],
                    confirmed, order)

SessionInit ==
    /\ world = spawn_sprites
    /\ peer_world = spawn_sprites
    /\ frame = 0
    /\ local_handle \in Handles
    /\ local_inputs = << >>
    /\ remote_inputs = [g \in 0 .. (MaxSessionFrame - 1) |-> Null]
    /\ used_inputs = << >>
    /\ snapshots = << >>
    /\ rollbacks = 0
    /\ sampled = << >>
    /\ InputInit /\ MenuInit /\ NetInit /\ RenderInit

\* advance one frame with the local input byte b
AdvanceFrame(b, order) ==
    /\ frame < MaxSessionFrame
    /\ \E r \in {RemoteInputFor(frame, remote_inputs)} :
           /\ snapshots' = Append(snapshots, world)
           /\ local_inputs' = Append(local_inputs, b)
           /\ used_inputs' = Append(used_inputs, r)
           /\ world' = move_sprites(world, InputVector(b, r), order)
    /\ frame' = frame + 1
    /\ UNCHANGED <<peer_world, local_handle, remote_inputs, rollbacks, sampled, rest_vars>>

\* the remote input byte b of frame g arrives
ReceiveInput(g, b, order) ==
    /\ g <= frame
    /\ remote_inputs[g] = Null
    /\ LET confirmed == [remote_inputs EXCEPT ![g] = b]
       IN  /\ remote_inputs' = confirmed
           /\ IF g < frame /\ used_inputs[g + 1] # b
              THEN \E re \in {Resimulate(g, LoadWorld(world, snapshots[g + 1]),
                                          snapshots, used_inputs, confirmed, order)} :
                       /\ world' = re.world
                       /\ snapshots' = re.snapshots
                       /\ used_inputs' = re.used_inputs
                       /\ rollbacks' = rollbacks + 1
              ELSE UNCHANGED <<world, snapshots, used_inputs, rollbacks>>
    /\ UNCHANGED <<peer_world, frame, local_handle, local_inputs, sampled, rest_vars>>

SessionNext ==
    \/ \E b \in SessionInputBytes, order \in QueryOrders : AdvanceFrame(b, order)
    \/ \E g \in 0 .. (MaxSessionFrame - 1), b \in SessionInputBytes, order \in QueryOrders :
           ReceiveInput(g, b, order)

SessionSpec == SessionInit /\ [][SessionNext]_vars

(***************************************************************************)
(* Input capture: the keyboard and controller sources put Inputs on the    *)
(* InputStream, and the session's input system drains it once per frame    *)
(* into the byte it hands to the session.                                  *)
(***************************************************************************)
RECURSIVE Pow2(_)
Pow2(n) == IF n = 0 THEN 1 ELSE 2 * Pow2(n - 1)

\* EnumSet::as_u8: the byte with bit InputBit[i] set for every variant i of the set
RECURSIVE as_u8(_)
as_u8(set) ==
    IF set = {} THEN 0
    ELSE LET i == CHOOSE j \in set : TRUE
         IN  Pow2(InputBit[i]) + as_u8(set \ {i})

\* a slip in the loop: `if let` for `while let`, only the oldest Input is taken
CollectFirst(queue, set) ==
    IF queue = << >> THEN set ELSE set \cup {Head(queue)}

\* while let Some(i) = input_stream.get() { set.insert(i); }
RECURSIVE Collect(_, _)
Collect(queue, set) ==
    IF queue = << >> THEN set ELSE Collect(Tail(queue), set \cup {Head(queue)})

\* InputStream::put, as called by the keydown callback and the controller;
\* max bounds the number of Inputs of a run
put(i, max) ==
    /\ presses < max
    /\ input_stream' = Append(input_stream, i)
    /\ pushed' = pushed \cup {i}
    /\ presses' = presses + 1
    /\ UNCHANGED <<input_set, input_byte, delivery_vars, sim_vars, session_vars, menu_vars, net_vars,
                   render_vars>>

\* net.rs input: the session's input system
net_input ==
    /\ \E set \in {Collect(input_stream, {})} :
           /\ input_set' = set
           /\ input_byte' = as_u8(set)
    /\ input_stream' = << >>
    /\ pushed' = {}
    /\ UNCHANGED <<presses, delivery_vars, sim_vars, session_vars, menu_vars, net_vars, render_vars>>

InputNext ==
    \/ \E i \in Input : put(i, MaxPresses)
    \/ net_input

InputSpec == Init /\ [][InputNext]_vars

(***************************************************************************)
(* Delivery: the keydown callback and the controller send on the channel,  *)
(* get takes from it, in any interleaving.                                 *)
(***************************************************************************)
\* Sender::send on the channel of InputStream::new
send(queue, i) == Append(queue, i)

\* a slip in the channel: the newest Input is taken first
try_recv_newest(queue) ==
    IF queue = << >> THEN [result |-> "None", queue |-> queue]
    ELSE [result |-> queue[Len(queue)], queue |-> SubSeq(queue, 1, Len(queue) - 1)]

\* Receiver::try_recv().ok(): the oldest Input, or None at once when there is none
\* (the stream keeps a Sender, so the channel is never disconnected)
try_recv(queue) ==
    IF queue = << >> THEN [result |-> "None", queue |-> queue]
    ELSE [result |-> Head(queue), queue |-> Tail(queue)]

\* the keydown callback of keyboard_source, on a key that maps to the Input i
on_key_down(i) ==
    /\ Len(sent) < MaxSent
    /\ input_stream' = send(input_stream, i)
    /\ sent' = Append(sent, i)
    /\ UNCHANGED <<received, got, pushed, presses, input_set, input_byte, sim_vars,
                   session_vars, menu_vars, net_vars, render_vars>>

\* InputStream::put, as drive_controller calls it for a button or an axis
controller_put(i) ==
    /\ Len(sent) < MaxSent
    /\ input_stream' = send(input_stream, i)
    /\ sent' = Append(sent, i)
    /\ UNCHANGED <<received, got, pushed, presses, input_set, input_byte, sim_vars,
                   session_vars, menu_vars, net_vars, render_vars>>

\* InputStream::get
get ==
    /\ \E r \in {try_recv(input_stream)} :
           /\ got' = r.result
           /\ input_stream' = r.queue
           /\ received' = IF r.result = "None" THEN received ELSE Append(received, r.result)
    /\ UNCHANGED <<sent, pushed, presses, input_set, input_byte, sim_vars, session_vars,
                   menu_vars, net_vars, render_vars>>

DeliveryNext ==
    \/ \E i \in Input : on_key_down(i)
    \/ \E i \in Input : controller_put(i)
    \/ get

DeliverySpec == Init /\ [][DeliveryNext]_vars

(***************************************************************************)
(* The single-player game: local.rs move_sprites drains the InputStream    *)
(* itself and steps the one player it spawned.                             *)
(***************************************************************************)
\* local.rs spawn_player: one player, of handle 0
spawn_player == [h \in {0} |-> spawn_sprites[h]]

\* local.rs move_sprites: every player is moved by the same input set, then physics
local_move_sprites(w, input_set_) ==
    PhysicsAll([h \in DOMAIN w |-> [w[h] EXCEPT !.velocity = move_player(input_set_, @)]],
               <<0>>, 1)

LocalInit ==
    /\ world = spawn_player
    /\ peer_world = spawn_player
    /\ frame = 0
    /\ local_handle = 0
    /\ local_inputs = << >>
    /\ remote_inputs = [g \in 0 .. (MaxSessionFrame - 1) |-> Null]
    /\ used_inputs = << >>
    /\ snapshots = << >>
    /\ rollbacks = 0
    /\ sampled = << >>
    /\ InputInit /\ NetInit /\ RenderInit
    /\ menu_pos = 0
    /\ app_state = "SinglePlayerGame"
    /\ scheduled = "None"
    /\ requested = << >>
    /\ menu_panicked = FALSE
    /\ text_colors = <<Pallet(3), Pallet(1)>>
    /\ marker_y = MENU_POS.y

\* one run of local.rs move_sprites
local_tick ==
    /\ frame < MaxLocalFrame
    /\ world' = local_move_sprites(world, Collect(input_stream, {}))
    /\ input_stream' = << >>
    /\ pushed' = {}
    /\ frame' = frame + 1
    /\ UNCHANGED <<peer_world, presses, input_set, input_byte, delivery_vars, session_vars, menu_vars,
                   net_vars, render_vars>>

LocalNext ==
    \/ \E i \in Input : put(i, MaxLocalPresses)
    \/ local_tick

LocalSpec == LocalInit /\ [][LocalNext]_vars

(***************************************************************************)
(* A player left alone: no Input ever arrives and the game ticks for ever. *)
(* The player starts at the spawn point, at rest or drifting sideways.     *)
(***************************************************************************)
DriftInit ==
    /\ \E vx \in (-MaxDrift) .. MaxDrift :
           world = [h \in {0} |-> [spawn_sprites[h] EXCEPT !.velocity.x = vx]]
    /\ peer_world = spawn_player
    /\ frame = 0
    /\ local_handle = 0
    /\ local_inputs = << >>
    /\ remote_inputs = [g \in 0 .. (MaxSessionFrame - 1) |-> Null]
    /\ used_inputs = << >>
    /\ snapshots = << >>
    /\ rollbacks = 0
    /\ sampled = << >>
    /\ InputInit /\ NetInit /\ RenderInit
    /\ menu_pos = 0
    /\ app_state = "SinglePlayerGame"
    /\ scheduled = "None"
    /\ requested = << >>
    /\ menu_panicked = FALSE
    /\ text_colors = <<Pallet(3), Pallet(1)>>
    /\ marker_y = MENU_POS.y

\* one run of local.rs move_sprites on an empty InputStream; the step does not
\* read the frame, which is counted modulo MaxDriftFrame + 1
idle_tick ==
    /\ input_stream = << >>
    /\ world' = local_move_sprites(world, Collect(input_stream, {}))
    /\ frame' = IF frame < MaxDriftFrame THEN frame + 1 ELSE 0
    /\ UNCHANGED <<peer_world, input_vars, session_vars, menu_vars, net_vars, render_vars>>

DriftNext == idle_tick

\* the schedule runs move_sprites on every frame for as long as the game is up
DriftSpec == DriftInit /\ [][DriftNext]_vars /\ WF_vars(idle_tick)

(***************************************************************************)
(* The menu: Menu::update drains the InputStream, moves the selection and  *)
(* asks State<AppState> for the selected entry's state.                    *)
(***************************************************************************)
\* the AppState of each entry menu::spawn_sprites gives to Menu::spawn
MenuEntries == <<"SinglePlayerGame", "MultiplayerGame">>

\* a slip in the lookup: the first entry whatever the selection
current_app_state_first(pos) == MenuEntries[1]

\* Menu::current_app_state: entries[pos].1
current_app_state(pos) == MenuEntries[pos + 1]

\* Menu::up: the entry left gets PALLET[1], the entry reached PALLET[3], and the
\* marker moves up by 10
up(m) ==
    IF m.pos > 0
    THEN [m EXCEPT !.colors = [[@ EXCEPT ![m.pos + 1] = Pallet(1)] EXCEPT ![m.pos] = Pallet(3)],
                   !.pos = @ - 1,
                   !.marker_y = @ - 10]
    ELSE m

\* a slip in the test: the last entry is not recognised as the last
down_past_end(m) ==
    IF m.pos < Len(MenuEntries)
    THEN [m EXCEPT !.colors = [[@ EXCEPT ![m.pos + 1] = Pallet(1)]
                                  EXCEPT ![m.pos + 2] = Pallet(3)],
                   !.pos = @ + 1,
                   !.marker_y = @ + 10]
    ELSE m

\* Menu::down: the same, one entry down
down(m) ==
    IF m.pos < Len(MenuEntries) - 1
    THEN [m EXCEPT !.colors = [[@ EXCEPT ![m.pos + 1] = Pallet(1)]
                                  EXCEPT ![m.pos + 2] = Pallet(3)],
                   !.pos = @ + 1,
                   !.marker_y = @ + 10]
    ELSE m

\* app_state.set(state).unwrap(): State::set refuses the current state and a second
\* transition while one is queued, and unwrap panics on the refusal
set_unwrap(m, state) ==
    LET asked == Append(m.requested, [pos |-> m.pos, state |-> state])
    IN  IF state = app_state \/ m.scheduled # "None"
        THEN [m EXCEPT !.requested = asked, !.panicked = TRUE]
        ELSE [m EXCEPT !.requested = asked, !.scheduled = state]

\* the loop of Menu::update over the queued Inputs; it stops where it panics
RECURSIVE update(_, _)
update(queue, m) ==
    IF queue = << >> \/ m.panicked THEN [m EXCEPT !.queue = queue]
    ELSE LET i == Head(queue)
         IN  update(Tail(queue),
                    IF i = "Primary" THEN set_unwrap(m, current_app_state(m.pos))
                    ELSE IF i = "Up" THEN up(m)
                    ELSE IF i = "Down" THEN down(m)
                    ELSE m)

\* one run of Menu::update, a system of on_update(AppState::Menu)
menu_update ==
    /\ app_state = "Menu"
    /\ scheduled = "None"
    /\ ~menu_panicked
    /\ \E m \in {update(input_stream, [pos |-> menu_pos, scheduled |-> scheduled,
                                        requested |-> requested, panicked |-> FALSE,
                                        queue |-> input_stream, colors |-> text_colors,
                                        marker_y |-> marker_y])} :
           /\ menu_pos' = m.pos
           /\ text_colors' = m.colors
           /\ marker_y' = m.marker_y
           /\ scheduled' = m.scheduled
           /\ requested' = m.requested
           /\ menu_panicked' = m.panicked
           /\ input_stream' = m.queue
    /\ pushed' = {}
    /\ UNCHANGED <<app_state, presses, input_set, input_byte, delivery_vars, sim_vars, session_vars,
                   net_vars, render_vars>>

\* the queued transition is applied: on_exit(Menu), then the new state is entered
state_transition ==
    /\ scheduled # "None"
    /\ ~menu_panicked
    /\ app_state' = scheduled
    /\ scheduled' = "None"
    /\ UNCHANGED <<menu_pos, requested, menu_panicked, text_colors, marker_y, input_vars,
                   sim_vars, session_vars, net_vars, render_vars>>

MenuNext ==
    \/ \E i \in Input : ~menu_panicked /\ put(i, MaxMenuPresses)
    \/ menu_update
    \/ state_transition

MenuSpec == Init /\ [][MenuNext]_vars

(***************************************************************************)
(* The handshake: wait_for_players polls the socket on every tick of       *)
(* MultiplayerGame and hands it to a new session once enough players are   *)
(* there.                                                                  *)
(***************************************************************************)
\* a slip in the handover: the socket is borrowed, the Option stays Some
take_by_ref(sock) == sock

\* Option::take: the Option is left None
take(sock) == "None"

\* a slip in the loop over the players: the delay is set whatever the PlayerType
set_frame_delay_all(h, local) == 2

\* if player == PlayerType::Local { p2p_session.set_frame_delay(2, i) }: the delay
\* of seat h, a seat never set keeping the session's default of none
set_frame_delay(h, local) == IF h = local THEN 2 ELSE 0

\* start_matchbox_socket has run: the socket is there, its only player the local one
HandshakeInit ==
    /\ world = spawn_sprites
    /\ peer_world = spawn_sprites
    /\ frame = 0
    /\ local_handle = 0
    /\ local_inputs = << >>
    /\ remote_inputs = [g \in 0 .. (MaxSessionFrame - 1) |-> Null]
    /\ used_inputs = << >>
    /\ snapshots = << >>
    /\ rollbacks = 0
    /\ sampled = << >>
    /\ InputInit /\ RenderInit
    /\ menu_pos = 0
    /\ app_state = "MultiplayerGame"
    /\ scheduled = "None"
    /\ requested = << >>
    /\ menu_panicked = FALSE
    /\ text_colors = <<Pallet(3), Pallet(1)>>
    /\ marker_y = MENU_POS.y
    /\ socket = "Some"
    /\ pending_peers = 0
    /\ players = 1
    /\ connection_status = "WaitingForPlayers"
    /\ sessions_started = 0
    /\ accepts = 0
    /\ peer_dropped = FALSE
    /\ frame_delay = [h \in Handles |-> 0]

\* a peer reaches the room; the socket's message loop queues the connection
peer_connects ==
    /\ players + pending_peers < 1 + MaxPeers
    /\ pending_peers' = pending_peers + 1
    /\ UNCHANGED <<socket, players, connection_status, sessions_started, accepts,
                   peer_dropped, frame_delay, sim_vars, session_vars, input_vars, menu_vars, render_vars>>

\* a peer goes away after the session was started; nothing in net.rs reacts to it
peer_drops ==
    /\ sessions_started > 0
    /\ ~peer_dropped
    /\ peer_dropped' = TRUE
    /\ UNCHANGED <<socket, pending_peers, players, connection_status, sessions_started,
                   accepts, frame_delay, sim_vars, session_vars, input_vars, menu_vars, render_vars>>

\* one run of wait_for_players
wait_for_players ==
    /\ IF socket = "None"
       THEN UNCHANGED net_vars
       ELSE /\ accepts < MaxHandshakeTicks
            /\ accepts' = accepts + 1
            /\ players' = players + pending_peers
            /\ pending_peers' = 0
            /\ IF players' < NUM_PLAYERS
               THEN UNCHANGED <<socket, connection_status, sessions_started, frame_delay>>
               ELSE /\ connection_status' = "Connected"
                    /\ socket' = take(socket)
                    /\ frame_delay' = [h \in Handles |-> set_frame_delay(h, local_handle)]
                    /\ sessions_started' = sessions_started + 1
            /\ UNCHANGED peer_dropped
    /\ UNCHANGED <<sim_vars, session_vars, input_vars, menu_vars, render_vars>>

HandshakeNext ==
    \/ peer_connects
    \/ wait_for_players
    \/ peer_drops

HandshakeSpec == HandshakeInit /\ [][HandshakeNext]_vars

(***************************************************************************)
(* Frame delay: the session started by wait_for_players holds every seat's *)
(* input back by that seat's frame delay.  Frames are advanced in step     *)
(* with the wall clock, every remote byte arriving in time.                *)
(***************************************************************************)
DelayInit ==
    /\ world = spawn_sprites
    /\ peer_world = spawn_sprites
    /\ frame = 0
    /\ local_handle \in Handles
    /\ local_inputs = << >>
    /\ remote_inputs = [g \in 0 .. (MaxSessionFrame - 1) |-> Null]
    /\ used_inputs = << >>
    /\ snapshots = << >>
    /\ rollbacks = 0
    /\ sampled = << >>
    /\ InputInit /\ RenderInit
    /\ menu_pos = 0
    /\ app_state = "MultiplayerGame"
    /\ scheduled = "None"
    /\ requested = << >>
    /\ menu_panicked = FALSE
    /\ text_colors = <<Pallet(3), Pallet(1)>>
    /\ marker_y = MENU_POS.y
    /\ socket = "Some"
    /\ pending_peers = 0
    /\ players = 1
    /\ connection_status = "WaitingForPlayers"
    /\ sessions_started = 0
    /\ accepts = 0
    /\ peer_dropped = FALSE
    /\ frame_delay = [h \in Handles |-> 0]

\* the byte seat h's input for frame g is: the one handed in delay frames earlier,
\* or the blank input when there is none yet
DelayedInput(samples, g, h, delay) ==
    IF g - delay >= 0 THEN samples[g - delay + 1][h] ELSE 0

\* one frame of the running session: each seat hands in a byte (the local one read
\* by the input system, the others received), and the frame is simulated
delayed_frame(bytes, order) ==
    /\ sessions_started > 0
    /\ frame < MaxDelayFrame
    /\ sampled' = Append(sampled, bytes)
    /\ \E used \in {[h \in Handles |-> DelayedInput(sampled', frame, h, frame_delay[h])]} :
           /\ local_inputs' = Append(local_inputs, used[local_handle])
           /\ used_inputs' = Append(used_inputs, used[1 - local_handle])
           /\ world' = move_sprites(world, used, order)
    /\ frame' = frame + 1
    /\ UNCHANGED <<peer_world, local_handle, remote_inputs, snapshots, rollbacks, rest_vars>>

\* the handshake is followed only as far as the start of the session, and polls
\* that find nobody new are left to HandshakeSpec
DelayNext ==
    \/ sessions_started = 0 /\ peer_connects
    \/ pending_peers > 0 /\ wait_for_players
    \/ \E bytes \in [Handles -> SessionInputBytes], order \in QueryOrders :
           delayed_frame(bytes, order)

DelaySpec == DelayInit /\ [][DelayNext]_vars

(***************************************************************************)
(* The renderer: color_pixel writes one pixel into the RGBA buffer.        *)
(***************************************************************************)
BYTES_PER_PIXEL == 4

\* the length CanvasRenderer::new gives the buffer
BufferLen == RENDER_RECT.size.width * RENDER_RECT.size.height * BYTES_PER_PIXEL

\* the offsets of the buffer that have been written
Written(buf) == {k - 1 : k \in DOMAIN buf}

\* the byte of the buffer at an offset; CanvasRenderer::new fills it with u8::MAX
BufferByte(buf, off) == IF off + 1 \in DOMAIN buf THEN buf[off + 1] ELSE 255

\* a slip in the test: the far edges counted as inside
contains_inclusive(r, p) ==
    /\ r.origin.x <= p.x /\ p.x <= r.origin.x + r.size.width
    /\ r.origin.y <= p.y /\ p.y <= r.origin.y + r.size.height

\* euclid Rect::contains, as called on RENDER_RECT in color_pixel
contains(r, p) ==
    /\ r.origin.x <= p.x /\ p.x < r.origin.x + r.size.width
    /\ r.origin.y <= p.y /\ p.y < r.origin.y + r.size.height

\* self.buffer[off] = byte, for each byte in turn; indexing the Vec outside its
\* length panics and leaves the earlier writes in place
RECURSIVE WriteBytes(_, _, _)
WriteBytes(buf, off, bytes) ==
    IF bytes = << >> THEN [buffer |-> buf, panicked |-> FALSE]
    ELSE IF off < 0 \/ off >= BufferLen THEN [buffer |-> buf, panicked |-> TRUE]
    ELSE WriteBytes(((off + 1) :> Head(bytes)) @@ buf, off + 1, Tail(bytes))

\* the positions color_pixel is called with: around the corners of RENDER_RECT
PixelXs ==
    (-PixelMargin .. PixelMargin)
        \cup ((RENDER_RECT.size.width - 1 - PixelMargin) .. (RENDER_RECT.size.width - 1 + PixelMargin))

PixelYs ==
    (-PixelMargin .. PixelMargin)
        \cup ((RENDER_RECT.size.height - 1 - PixelMargin) .. (RENDER_RECT.size.height - 1 + PixelMargin))

\* CanvasRenderer::color_pixel on the renderer r = [buffer, painted, panicked]; once
\* the program has panicked nothing more is written
color_pixel_on(r, pos, color) ==
    IF r.panicked THEN r
    ELSE IF ~contains(RENDER_RECT, pos)
    THEN [r EXCEPT !.panicked = TRUE, !.painted = (pos :> [returned |-> FALSE]) @@ @]
    ELSE LET w == WriteBytes(r.buffer,
                             (pos.y * RENDER_RECT.size.width + pos.x) * BYTES_PER_PIXEL,
                             <<color.r, color.g, color.b, 255>>)
         IN  [buffer |-> w.buffer,
              panicked |-> w.panicked,
              painted |-> (pos :> IF w.panicked THEN [returned |-> FALSE]
                                  ELSE [color |-> color, returned |-> TRUE]) @@ r.painted]

\* a renderer on which nothing has been written yet
Blank == [buffer |-> << >>, painted |-> << >>, panicked |-> FALSE]

\* color_pixel never reads the buffer, so the calls of one sprite are collected on
\* a blank renderer and then laid over the renderer r they were made on
Over(f, g) ==
    LET over == DOMAIN f
    IN  [x \in over \cup DOMAIN g |-> IF x \in over THEN f[x] ELSE g[x]]

Overlay(calls, r) ==
    IF r.panicked THEN r
    ELSE [buffer |-> Over(calls.buffer, r.buffer),
          painted |-> Over(calls.painted, r.painted),
          panicked |-> calls.panicked]

\* the renderer as a record, and its assignment to the variables
Renderer == [buffer |-> buffer, painted |-> painted, panicked |-> renderer_panicked]

SetRenderer(r) ==
    /\ buffer' = r.buffer
    /\ painted' = r.painted
    /\ renderer_panicked' = r.panicked

\* one call of CanvasRenderer::color_pixel
color_pixel(pos, color) ==
    /\ ~renderer_panicked
    /\ pos \in DOMAIN painted \/ Cardinality(DOMAIN painted) < MaxPainted
          \/ ~contains(RENDER_RECT, pos)
    /\ \E r \in {color_pixel_on(Renderer, pos, color)} : SetRenderer(r)
    /\ UNCHANGED <<drawn, font, tile_call, background, iterated, sim_vars, session_vars,
                   input_vars, menu_vars, net_vars>>

RenderNext ==
    \E x \in PixelXs, y \in PixelYs, k \in 1 .. Len(PALLET) :
        color_pixel([x |-> x, y |-> y], PALLET[k])

RenderSpec == Init /\ [][RenderNext]_vars

(***************************************************************************)
(* Drawing: the sprites are drawn pixel by pixel through color_pixel.      *)
(***************************************************************************)
\* a slip in the wrap: the column past the right side is taken for the last
advance_past_side(i, rect) ==
    IF i.x = rect.origin.x + rect.size.width
    THEN [x |-> rect.origin.x, y |-> i.y + 1]
    ELSE [x |-> i.x + 1, y |-> i.y]

\* PointIterator::advance
advance(i, rect) ==
    IF i.x = rect.origin.x + rect.size.width - 1
    THEN [x |-> rect.origin.x, y |-> i.y + 1]
    ELSE [x |-> i.x + 1, y |-> i.y]

\* PointIterator::next called at most n times on the iterator at i, stopping when
\* it returns None: the points yielded, in order, and the iterator afterwards.
\* The calls are made as a first half and a second half.
RECURSIVE next_n(_, _, _)

\* the points of two runs of calls, one after the other
then(first, second) == [points |-> first.points \o second.points, i |-> second.i]

next_more(it, rect, n) ==
    IF ~contains(rect, it.i) THEN it ELSE then(it, next_n(it.i, rect, n))

next_n(i, rect, n) ==
    IF n <= 0 \/ ~contains(rect, i) THEN [points |-> << >>, i |-> i]
    ELSE IF n = 1 THEN [points |-> <<i>>, i |-> advance(i, rect)]
    ELSE next_more(next_n(i, rect, n \div 2), rect, n - n \div 2)

\* PointIterator::next called until it returns None: no iterator over a rectangle
\* is asked for more points than one more than the rectangle has
PointsFrom(i, rect) == next_n(i, rect, rect.size.width * rect.size.height + 1).points

\* the points of a rectangle, as a set
Points(rect) ==
    {[x |-> x, y |-> y] : x \in rect.origin.x .. (rect.origin.x + rect.size.width - 1),
                          y \in rect.origin.y .. (rect.origin.y + rect.size.height - 1)}

\* point_iter of a Rect: the iterator starts at the origin
point_iter(rect) == PointsFrom(rect.origin, rect)

\* point_iter of a Size2D: the rectangle of that size at (0, 0)
size_point_iter(size) == point_iter([origin |-> [x |-> 0, y |-> 0], size |-> size])

\* a slip in Player::draw: every point of the Bounds is drawn
player_pixel_always(pt) == TRUE

\* if RENDER_RECT.contains(p), the test of Player::draw
player_pixel_visible(pt) == contains(RENDER_RECT, pt)

\* the loop of Player::draw over points[lo .. hi], in order: the first half of the
\* points, then the second
RECURSIVE PlayerPixels(_, _, _, _, _)
PlayerPixels(r, points, lo, hi, color) ==
    IF lo > hi \/ r.panicked THEN r
    ELSE IF lo = hi
    THEN IF player_pixel_visible(points[lo]) THEN color_pixel_on(r, points[lo], color) ELSE r
    ELSE PlayerPixels(PlayerPixels(r, points, lo, (lo + hi) \div 2, color),
                      points, (lo + hi) \div 2 + 1, hi, color)

\* Player::draw
player_loop(points, color) == PlayerPixels(Blank, points, 1, Len(points), color)

player_draw(r, bounds, color) == Overlay(player_loop(point_iter(bounds), color), r)

\* arbitrary_color: a colour fixed by the handle (the hash is not modelled)
arbitrary_color(h) == PALLET[h + 1]

\* a slip in the test: the other pallet index taken for the ink
ink_color1(pixel) == pixel = "Color1"

\* pixel == PalletColor::Color2, the test of draw_tile
ink(pixel) == pixel = "Color2"

\* SpriteData::get_pixel: "Panic" when the assertion or the index into data fails
get_pixel(data, pos) ==
    IF ~contains([origin |-> [x |-> 0, y |-> 0], size |-> data.size], pos) THEN "Panic"
    ELSE IF pos.y * data.size.width + pos.x + 1 > Len(data.data) THEN "Panic"
    ELSE data.data[pos.y * data.size.width + pos.x + 1]

\* the body of the loop of draw_tile for one point of the sprite
tile_pixel(r, data, tp, origin, color) ==
    IF get_pixel(data, tp) = "Panic" THEN [r EXCEPT !.panicked = TRUE]
    ELSE IF ink(get_pixel(data, tp))
    THEN color_pixel_on(r, [x |-> origin.x + tp.x, y |-> origin.y + tp.y], color)
    ELSE r

\* the loop of draw_tile over points[lo .. hi], in order: the first half of the
\* points, then the second
RECURSIVE TilePixels(_, _, _, _, _, _, _)
TilePixels(r, data, points, lo, hi, origin, color) ==
    IF lo > hi \/ r.panicked THEN r
    ELSE IF lo = hi THEN tile_pixel(r, data, points[lo], origin, color)
    ELSE TilePixels(TilePixels(r, data, points, lo, (lo + hi) \div 2, origin, color),
                    data, points, (lo + hi) \div 2 + 1, hi, origin, color)

tile_loop(data, points, origin, color) ==
    TilePixels(Blank, data, points, 1, Len(points), origin, color)

\* SpriteSheet::draw_tile: the renderer afterwards, and the size returned; a key
\* that is not in the sheet panics
draw_tile(sheet, tile, origin, color, r) ==
    IF r.panicked THEN [renderer |-> r, size |-> [width |-> 0, height |-> 0]]
    ELSE IF tile \notin DOMAIN sheet
    THEN [renderer |-> [r EXCEPT !.panicked = TRUE], size |-> [width |-> 0, height |-> 0]]
    ELSE [renderer |-> Overlay(tile_loop(sheet[tile], size_point_iter(sheet[tile].size),
                                         origin, color), r),
          size |-> sheet[tile].size]

\* the loop of TextBox::draw over the characters.
\* d is what draw_tile returned for the character before, drawn at pt: p.x +=
\* size.width, and the next character is drawn
RECURSIVE textbox_chars(_, _, _, _, _, _)
textbox_chars(d, sheet, text, k, pt, color) ==
    IF k > Len(text) \/ d.renderer.panicked THEN d.renderer
    ELSE textbox_chars(draw_tile(sheet, text[k], [pt EXCEPT !.x = @ + d.size.width], color,
                                 d.renderer),
                       sheet, text, k + 1, [pt EXCEPT !.x = @ + d.size.width], color)

\* TextBox::draw
textbox_draw(r, sheet, text, pt, color) ==
    textbox_chars([renderer |-> r, size |-> [width |-> 0, height |-> 0]], sheet, text, 1, pt,
                  color)

(***************************************************************************)
(* The sprites of a frame, and the systems that draw them.                 *)
(***************************************************************************)
\* image::save_font cuts tiles of this size out of the font image
FONT_TILE == [width |-> 16, height |-> 16]

\* image::save_font keeps the left half of every tile
glyph_size == [width |-> FONT_TILE.width \div 2, height |-> FONT_TILE.height]

\* the characters image::save_font puts into the sheet (the backquote is spelt out)
FontChars ==
    {"a", "b", "c", "d", "e", "f", "g", "h", "i", "j", "k", "l", "m", "n", "o", "p",
      "q", "r", "s", "t", "u", "v", "w", "x", "y", "z", "0", "1", "2", "3", "4", "5",
      "6", "7", "8", "9", " ", ".", ",", ";", ":", "?", "!", "-", "_", "~", "#", "'",
      "&", "(", ")", "[", "]", "{", "}", "^", "|", "backquote", "/", "\\", "@", "*", "+", "=",
      "$", "%", "<", ">"}

\* the ink of a glyph: the font image is not part of the sources, so a glyph has
\* no ink, ink in its four corners, or ink on its diagonal
FontPatterns == {"blank", "corners", "diagonal"}

glyph_ink(pattern, x, y) ==
    \/ pattern = "corners" /\ x \in {0, glyph_size.width - 1} /\ y \in {0, glyph_size.height - 1}
    \/ pattern = "diagonal" /\ x = y % glyph_size.width

glyph_data(pattern) ==
    [k \in 1 .. (glyph_size.width * glyph_size.height) |->
        IF glyph_ink(pattern, (k - 1) % glyph_size.width, (k - 1) \div glyph_size.width)
        THEN "Color2" ELSE "Color1"]

\* Assets::default: the sheet deserialized from the font file
font_sheet(pattern) ==
    [c \in FontChars |-> [size |-> glyph_size, data |-> glyph_data(pattern)]]

HelloWorld ==
    <<"h", "e", "l", "l", "o", " ", "w", "o", "r", "l", "d">>

FrogQuestBattle ==
    <<"f", "r", "o", "g", " ", "q", "u", "e", "s", "t", " ", "b", "a", "t", "t", "l",
      "e">>

SinglePlayer ==
    <<"s", "i", "n", "g", "l", "e", " ", "p", "l", "a", "y", "e", "r">>

Multiplayer ==
    <<"m", "u", "l", "t", "i", "p", "l", "a", "y", "e", "r">>

\* image::BLACK
BLACK == [r |-> 0, g |-> 0, b |-> 0]

\* the TextBoxes alive in an application state: menu::spawn_sprites and
\* Menu::spawn in the menu, game::spawn_sprites in a game
TextBoxes ==
    IF app_state = "Menu"
    THEN <<[text |-> FrogQuestBattle, origin |-> [x |-> 10, y |-> 40], color |-> Pallet(2)],
           [text |-> SinglePlayer, origin |-> [x |-> MENU_POS.x + 5, y |-> MENU_POS.y],
            color |-> text_colors[1]],
           [text |-> Multiplayer, origin |-> [x |-> MENU_POS.x + 5, y |-> MENU_POS.y + 10],
            color |-> text_colors[2]]>>
    ELSE <<[text |-> HelloWorld, origin |-> [x |-> 10, y |-> 40], color |-> BLACK]>>

\* the SimpleSprites alive: the marker of the menu
SimpleSprites ==
    IF app_state = "Menu"
    THEN <<[tile |-> ">", origin |-> [x |-> MENU_POS.x, y |-> marker_y], color |-> Pallet(3)]>>
    ELSE << >>

\* the orders in which a query can yield n entities
Orders(n) == {o \in [1 .. n -> 1 .. n] : \A i \in 1 .. n : \E k \in 1 .. n : o[k] = i}

\* graphics::draw_sprites::<TextBox>: the loop over the query
RECURSIVE draw_textboxes(_, _, _, _, _)
draw_textboxes(r, sheet, boxes, order, k) ==
    IF k > Len(order) \/ r.panicked THEN r
    ELSE draw_textboxes(textbox_draw(r, sheet, boxes[order[k]].text, boxes[order[k]].origin,
                                     boxes[order[k]].color),
                        sheet, boxes, order, k + 1)

\* graphics::draw_sprites::<SimpleSprite>: the loop over the query
RECURSIVE draw_simplesprites(_, _, _, _, _)
draw_simplesprites(r, sheet, sprites, order, k) ==
    IF k > Len(order) \/ r.panicked THEN r
    ELSE draw_simplesprites(draw_tile(sheet, sprites[order[k]].tile, sprites[order[k]].origin,
                                      sprites[order[k]].color, r).renderer,
                            sheet, sprites, order, k + 1)

\* graphics::draw_sprites::<Player>: the loop over the query
RECURSIVE draw_players(_, _, _, _)
draw_players(r, w, order, k) ==
    IF k > Len(order) \/ r.panicked THEN r
    ELSE draw_players(player_draw(r, w[order[k]].bounds, arbitrary_color(order[k])),
                      w, order, k + 1)

\* the Menu after Down has been read n times
RECURSIVE MenuAfterDown(_)
MenuAfterDown(n) ==
    IF n = 0 THEN [pos |-> 0, colors |-> <<Pallet(3), Pallet(1)>>, marker_y |-> MENU_POS.y]
    ELSE down(MenuAfterDown(n - 1))

\* where the player of seat 0 is when the frame is drawn: wholly outside after
\* the wrap, inside, or across an edge
PlayerXs ==
    {-10, 10} \cup ((-PixelMargin) .. 0)
        \cup ((RENDER_RECT.size.width - 10) .. (RENDER_RECT.size.width - 10 + PixelMargin))

PlayerYs ==
    {10} \cup ((-PixelMargin) .. 0)
        \cup ((RENDER_RECT.size.height - 10) .. (RENDER_RECT.size.height - 10 + PixelMargin))

\* across one edge at a time, and across two at the corners
PlayerOrigins ==
    {[x |-> x, y |-> 10] : x \in PlayerXs} \cup {[x |-> 10, y |-> y] : y \in PlayerYs}
        \cup {[x |-> -PixelMargin, y |-> -PixelMargin],
              [x |-> RENDER_RECT.size.width - 10 + PixelMargin,
               y |-> RENDER_RECT.size.height - 10 + PixelMargin]}

\* a frame about to be drawn: the menu with either entry selected, or a game
\* with the player of seat 0 somewhere around the screen
DrawInit ==
    /\ peer_world = spawn_sprites
    /\ frame = 0
    /\ local_handle = 0
    /\ local_inputs = << >>
    /\ remote_inputs = [g \in 0 .. (MaxSessionFrame - 1) |-> Null]
    /\ used_inputs = << >>
    /\ snapshots = << >>
    /\ rollbacks = 0
    /\ sampled = << >>
    /\ InputInit /\ NetInit
    /\ scheduled = "None"
    /\ requested = << >>
    /\ menu_panicked = FALSE
    /\ buffer = << >>
    /\ painted = << >>
    /\ renderer_panicked = FALSE
    /\ drawn = {}
    /\ font \in FontPatterns
    /\ tile_call = NoTileCall
    /\ background = NoBackground
    /\ iterated = NoIteration
    /\ \/ /\ app_state = "Menu"
          /\ world = spawn_sprites
          /\ \E n \in 0 .. (Len(MenuEntries) - 1) :
                /\ menu_pos = MenuAfterDown(n).pos
                /\ text_colors = MenuAfterDown(n).colors
                /\ marker_y = MenuAfterDown(n).marker_y
       \/ /\ app_state = "MultiplayerGame"
          /\ \E origin \in PlayerOrigins :
                world = [spawn_sprites EXCEPT ![0].bounds.origin = origin]
          /\ menu_pos = 0
          /\ text_colors = <<Pallet(3), Pallet(1)>>
          /\ marker_y = MENU_POS.y

\* one run of a draw system in the frame
draw_system(name, r) ==
    /\ name \notin drawn
    /\ ~renderer_panicked
    /\ SetRenderer(r)
    /\ drawn' = drawn \cup {name}
    /\ UNCHANGED <<font, tile_call, background, iterated, sim_vars, session_vars, input_vars,
                   menu_vars, net_vars>>

draw_sprites_TextBox ==
    \E order \in Orders(Len(TextBoxes)) :
        \E r \in {draw_textboxes(Renderer, font_sheet(font), TextBoxes, order, 1)} :
            draw_system("TextBox", r)

draw_sprites_SimpleSprite ==
    /\ app_state = "Menu"
    /\ \E order \in Orders(Len(SimpleSprites)) :
          \E r \in {draw_simplesprites(Renderer, font_sheet(font), SimpleSprites, order, 1)} :
              draw_system("SimpleSprite", r)

draw_sprites_Player ==
    /\ app_state # "Menu"
    /\ \E order \in QueryOrders :
          \E r \in {draw_players(Renderer, world, order, 1)} : draw_system("Player", r)

DrawNext == draw_sprites_TextBox \/ draw_sprites_SimpleSprite \/ draw_sprites_Player

DrawSpec == DrawInit /\ [][DrawNext]_vars

(***************************************************************************)
(* draw_tile on its own: one call on a sheet of one small sprite.          *)
(***************************************************************************)
\* enum PalletColor
PalletColor == {"Color1", "Color2", "Color3", "Color4"}

\* the sprites of a size: data holds one pallet index for every point, Color2 on
\* some points and one other index on the rest
SpritesOf(w, h) ==
    UNION {{[size |-> [width |-> w, height |-> h], data |-> data] :
              data \in [1 .. (w * h) -> {"Color2", other}]} :
             other \in PalletColor \ {"Color2"}}

\* sheets with the one key "a"
TileSheets ==
    UNION {{[c \in {"a"} |-> sprite] : sprite \in SpritesOf(w, h)} :
             w \in 0 .. MaxTileSide, h \in 0 .. MaxTileSide}

\* the sprite is drawn in the top left corner, or across the bottom right corner
TileOrigins ==
    {[x |-> 0, y |-> 0], [x |-> RENDER_RECT.size.width - 1, y |-> RENDER_RECT.size.height - 1]}

TileInit ==
    /\ world = spawn_sprites
    /\ peer_world = spawn_sprites
    /\ frame = 0
    /\ local_handle = 0
    /\ local_inputs = << >>
    /\ remote_inputs = [g \in 0 .. (MaxSessionFrame - 1) |-> Null]
    /\ used_inputs = << >>
    /\ snapshots = << >>
    /\ rollbacks = 0
    /\ sampled = << >>
    /\ InputInit /\ MenuInit /\ NetInit
    /\ buffer = << >>
    /\ painted = << >>
    /\ renderer_panicked = FALSE
    /\ drawn = {}
    /\ font = "blank"
    /\ background = NoBackground
    /\ iterated = NoIteration
    /\ \E sheet \in TileSheets, tile \in {"a", "b"}, origin \in TileOrigins :
          tile_call = [sheet |-> sheet, tile |-> tile, origin |-> origin, color |-> Pallet(3),
                       size |-> [width |-> 0, height |-> 0], outcome |-> "Pending"]

\* assets.font.draw_tile(tile, origin, color, renderer), as SimpleSprite::draw
\* and TextBox::draw call it
call_draw_tile ==
    /\ tile_call.outcome = "Pending"
    /\ ~renderer_panicked
    /\ \E d \in {draw_tile(tile_call.sheet, tile_call.tile, tile_call.origin, tile_call.color,
                           Renderer)} :
          /\ SetRenderer(d.renderer)
          /\ tile_call' = [tile_call EXCEPT !.size = d.size,
                                            !.outcome = IF d.renderer.panicked THEN "Aborted"
                                                        ELSE "Returned"]
    /\ UNCHANGED <<drawn, font, background, iterated, sim_vars, session_vars, input_vars,
                   menu_vars, net_vars>>

TileNext == call_draw_tile

TileSpec == TileInit /\ [][TileNext]_vars

(***************************************************************************)
(* The background, and the point iterator on its own.                      *)
(***************************************************************************)
\* graphics::BG_COLOR
BG_COLOR == Pallet(0)

\* renderer.color_pixel(points[k], color) for k = lo .. hi, in order: the first
\* half of the points, then the second
RECURSIVE ColorPixels(_, _, _, _, _)
ColorPixels(r, points, lo, hi, color) ==
    IF lo > hi \/ r.panicked THEN r
    ELSE IF lo = hi THEN color_pixel_on(r, points[lo], color)
    ELSE ColorPixels(ColorPixels(r, points, lo, (lo + hi) \div 2, color),
                     points, (lo + hi) \div 2 + 1, hi, color)

\* the bytes written laid over the buffer, as Over gives them; where the buffer is
\* written from its start to some offset and the bytes are the next ones, the
\* buffer is a sequence and the bytes are appended to it
Laid(written, buf) ==
    LET len == Cardinality(DOMAIN buf)
        n == Cardinality(DOMAIN written)
    IN  IF DOMAIN buf = 1 .. len /\ DOMAIN written = (len + 1) .. (len + n)
        THEN buf \o [k \in 1 .. n |-> written[len + k]]
        ELSE Over(written, buf)

\* the rectangles a PointIterator is run over on its own
IteratedOrigins == {[x |-> 0, y |-> 0], [x |-> 2, y |-> -1], [x |-> -3, y |-> 5], [x |-> 1, y |-> 1]}

IteratedRects ==
    {[origin |-> origin, size |-> [width |-> w, height |-> h]] :
        origin \in IteratedOrigins, w \in 0 .. MaxRectSide, h \in 0 .. MaxRectSide}

\* either the frame's background is about to be drawn, or a PointIterator is
\* about to be run over a small rectangle
BackgroundInit ==
    /\ world = spawn_sprites
    /\ peer_world = spawn_sprites
    /\ frame = 0
    /\ local_handle = 0
    /\ local_inputs = << >>
    /\ remote_inputs = [g \in 0 .. (MaxSessionFrame - 1) |-> Null]
    /\ used_inputs = << >>
    /\ snapshots = << >>
    /\ rollbacks = 0
    /\ sampled = << >>
    /\ InputInit /\ MenuInit /\ NetInit
    /\ buffer = << >>
    /\ painted = << >>
    /\ renderer_panicked = FALSE
    /\ drawn = {}
    /\ font = "blank"
    /\ tile_call = NoTileCall
    /\ \/ /\ background = [i |-> RENDER_RECT.origin, points |-> << >>, outcome |-> "Running"]
          /\ iterated = NoIteration
       \/ /\ background = NoBackground
          /\ \E rect \in IteratedRects :
                iterated = [rect |-> rect, points |-> << >>, outcome |-> "Pending"]

\* graphics::draw_background, a row's worth of iterations of its loop at a time:
\* next is called RENDER_RECT.size.width times and every point it gives is
\* coloured; the loop returns when next gives nothing.  Its calls of color_pixel
\* are kept in background.points.
draw_background ==
    /\ background.outcome = "Running"
    /\ ~renderer_panicked
    /\ \E it \in {next_n(background.i, RENDER_RECT, RENDER_RECT.size.width)} :
          IF it.points = << >>
          THEN /\ background' = [background EXCEPT !.outcome = "Returned"]
               /\ UNCHANGED <<buffer, renderer_panicked>>
          ELSE \E calls \in {ColorPixels(Blank, it.points, 1, Len(it.points), BG_COLOR)} :
                  /\ buffer' = Laid(calls.buffer, buffer)
                  /\ renderer_panicked' = calls.panicked
                  /\ background' = [i |-> it.i,
                                    points |-> background.points \o it.points,
                                    outcome |-> IF calls.panicked THEN "Aborted" ELSE "Running"]
    /\ UNCHANGED <<painted, drawn, font, tile_call, iterated, sim_vars, session_vars,
                   input_vars, menu_vars, net_vars>>

\* for p in rect.point_iter(): the points the loop sees
run_point_iter ==
    /\ iterated.outcome = "Pending"
    /\ iterated' = [iterated EXCEPT !.points = point_iter(iterated.rect),
                                    !.outcome = "Returned"]
    /\ UNCHANGED <<canvas_vars, drawn, font, tile_call, background, sim_vars, session_vars,
                   input_vars, menu_vars, net_vars>>

BackgroundNext == draw_background \/ run_point_iter

BackgroundSpec == BackgroundInit /\ [][BackgroundNext]_vars

(***************************************************************************)
(* Properties.                                                             *)
(***************************************************************************)
\* the order of the seats, used to compute the reference run
SeatOrder == [i \in 1 .. NUM_PLAYERS |-> i - 1]

\* the world at frame g had every frame before it been run once, with the
\* inputs the players really made
RECURSIVE Authoritative(_)
Authoritative(g) ==
    IF g = 0 THEN spawn_sprites
    ELSE move_sprites(Authoritative(g - 1),
                      InputVector(local_inputs[g], remote_inputs[g - 1]), SeatOrder)

\* every remote input of frames 0 .. g-1 has arrived
ConfirmedThrough(g) == \A k \in 0 .. (g - 1) : remote_inputs[k] # Null

\* the session's world at the start of frame g
StateAt(g) == IF g = frame THEN world ELSE snapshots[g + 1]

\* C1: rollback equivalence.  Whatever the order and delay in which the remote
\* inputs arrive, once every input of frames 0..g-1 is confirmed the session's
\* world at frame g is the world reached by iterating the step from the spawn
\* state with exactly those inputs, as if nothing had ever been predicted.
RollbackEquivalence ==
    \A g \in 0 .. frame : ConfirmedThrough(g) => StateAt(g) = Authoritative(g)

\* C1 witness: three frames were advanced on predictions, a wrong prediction
\* forced a rollback, and every remote input has since arrived.
RollbackWitness ==
    /\ frame >= 3
    /\ rollbacks >= 1
    /\ ConfirmedThrough(frame)
    /\ \E g \in 0 .. (frame - 1) : remote_inputs[g] # 0
    /\ world # spawn_sprites

\* C2: determinism of the step.  Two copies of the simulation started from the
\* same world and fed the same input bytes on every tick hold the same Bounds
\* and Velocity for every player after every number of ticks, whatever order
\* each copy's query visits the players in.
Determinism == world = peer_world

\* C2 witness: both copies have run ticks in which the two players received
\* different inputs, and both players have moved.
DeterminismWitness ==
    /\ frame >= 2
    /\ world = peer_world
    /\ world[0].velocity # world[1].velocity
    /\ \A h \in Handles : world[h].velocity # spawn_sprites[h].velocity

\* C8: horizontal velocity clamp.  After any step, under any input, every
\* player's horizontal velocity lies in -2 .. 2.
HorizontalVelocityClamp ==
    \A h \in Handles : world[h].velocity.x >= -2 /\ world[h].velocity.x <= 2

\* C9: ground containment.  After any step every player's origin.y lies in
\* 0 .. H - height, H being the height of RENDER_RECT.
GroundContainment ==
    frame > 0 =>
        \A h \in Handles :
            /\ world[h].bounds.origin.y >= 0
            /\ world[h].bounds.origin.y
                   <= RENDER_RECT.size.height - world[h].bounds.size.height

\* C10: horizontal wrap.  In every step, a player whose moved origin.x is beyond
\* W has W + width subtracted from it, one whose moved origin.x is below -width
\* has W + width added, and either way origin.x ends in -width .. W.  (physics
\* never changes velocity.x, so the velocity after the step is the one the
\* position was moved by.)
HorizontalWrap ==
    [][\A h \in Handles :
          LET b == world[h].bounds
              W == RENDER_RECT.size.width
              xi == b.origin.x + world'[h].velocity.x
              after == world'[h].bounds.origin.x
          IN  /\ xi > W => after = xi - (W + b.size.width)
              /\ xi < -b.size.width => after = xi + (W + b.size.width)
              /\ (xi > W \/ xi < -b.size.width) =>
                    (after >= -b.size.width /\ after <= W)]_vars

\* C11: input-byte round trip.  The byte the input system returns for the set of
\* Inputs it collected decodes, by the from_u8 of move_sprites, to exactly that
\* set, for every subset of {Up, Down, Left, Right, Primary}.
InputByteRoundTrip == input_byte # Null => from_u8(input_byte) = input_set

\* C11 witness: all five Inputs were collected in one frame and encoded.
InputByteRoundTripWitness ==
    /\ input_byte # Null
    /\ input_set = Input
    /\ presses = 5

\* bit InputBit[i] of the byte
HasBit(byte, i) == (byte \div Pow2(InputBit[i])) % 2 = 1

\* C12: per-frame input encoding.  The byte returned by the input system has an
\* Input's bit set if and only if that Input was put on the stream at least once
\* since the stream was last drained, and the stream is empty when it returns.
PerFrameInputEncoding ==
    [][net_input =>
          /\ \A i \in Input : HasBit(input_byte', i) <=> i \in pushed
          /\ input_stream' = << >>]_vars

\* C12 witness: a frame in which one Input was put twice and another once has
\* been encoded, and the stream is empty.
PerFrameInputEncodingWitness ==
    /\ input_byte # Null
    /\ presses = 3
    /\ Cardinality(input_set) = 2
    /\ input_stream = << >>
    /\ pushed = {}

\* C13: flap cooldown.  A player whose input holds Primary at a frame more than 5
\* after its last flap flaps: its vertical velocity decreases by 2.  Checked where
\* nothing else touches the velocity: Primary is the only Input of the tick and
\* the first of the run (so the player has not flapped since it was spawned at
\* frame 0), and the frame is not one on which gravity is due.
FlapCooldown ==
    [][(/\ local_tick
        /\ input_stream = <<"Primary">>
        /\ presses = 1
        /\ frame > 5
        /\ frame % 20 \notin {0, 19})
          => world'[0].velocity.y = world[0].velocity.y - 2]_vars

\* C14: gravity.  A player started at (10, 10) with velocity (0, 0) that is never
\* given an Input has vertical velocity 1 once frame 20 has been stepped.
Gravity == (presses = 0 /\ frame = 21) => world[0].velocity.y = 1

\* integer division truncating toward zero
TruncDiv(a, b) == IF a >= 0 THEN a \div b ELSE -((-a) \div b)

\* C15: ceiling bounce.  In every step in which the moved origin.y is at or above
\* the top edge (<= 0), the player ends the step at origin.y = 0 with the vertical
\* velocity it was moved by negated and halved, truncating.
CeilingBounce ==
    [][local_tick =>
          LET v == move_player(Collect(input_stream, {}), world[0].velocity)
              y == world[0].bounds.origin.y + v.y
          IN  y <= 0 => /\ world'[0].bounds.origin.y = 0
                        /\ world'[0].velocity.y = TruncDiv(-v.y, 2)]_vars

\* the queue holds no Primary
NoPrimary(queue) == \A k \in 1 .. Len(queue) : queue[k] # "Primary"

\* C16: menu transition.  In every run of Menu::update, each Primary asks for the
\* state of the entry selected when it is read, SinglePlayerGame for entry 0 and
\* MultiplayerGame for entry 1, and the transition queued is the one first asked
\* for; a run whose Inputs are only Up, Down, Left and Right changes neither the
\* app state nor the queued transition.
MenuTransition ==
    [][menu_update =>
          /\ \A k \in 1 .. Len(requested') :
                 requested'[k].state = (IF requested'[k].pos = 0 THEN "SinglePlayerGame"
                                        ELSE "MultiplayerGame")
          /\ NoPrimary(input_stream) =>
                 /\ app_state' = app_state
                 /\ scheduled' = scheduled
                 /\ requested' = requested
          /\ ~NoPrimary(input_stream) =>
                 /\ requested' # << >>
                 /\ scheduled' = requested'[1].state
          /\ (input_stream # << >> /\ Head(input_stream) = "Primary") =>
                 requested'[1].pos = menu_pos]_vars

\* C16 witness: Down then Primary were read in one run, and the transition to
\* MultiplayerGame is queued.
MenuTransitionWitness ==
    /\ app_state = "Menu"
    /\ menu_pos = 1
    /\ scheduled = "MultiplayerGame"
    /\ requested = <<[pos |-> 1, state |-> "MultiplayerGame"]>>
    /\ ~menu_panicked

\* C20: no abort in the menu.  Menu::update never panics, whatever Inputs it finds
\* on the stream in one run.
NoMenuAbort == ~menu_panicked

\* C17: handshake.  A session is started at most once, and only by a run of
\* wait_for_players in which the socket reports at least NUM_PLAYERS players; that
\* run hands the socket over.  A run before it only accepts connections; once the
\* socket is handed over no run accepts connections or starts a session.
Handshake ==
    [][/\ sessions_started' <= 1
       /\ sessions_started' # sessions_started =>
              /\ wait_for_players
              /\ socket = "Some"
              /\ players' >= NUM_PLAYERS
              /\ socket' = "None"
       /\ (wait_for_players /\ socket = "Some") =>
              /\ accepts' = accepts + 1
              /\ IF players + pending_peers >= NUM_PLAYERS
                 THEN sessions_started' = sessions_started + 1
                 ELSE sessions_started' = sessions_started /\ socket' = "Some"
       /\ socket = "None" =>
              /\ accepts' = accepts
              /\ sessions_started' = sessions_started
              /\ socket' = "None"]_vars

\* C17 witness: two runs only accepted, a later one started the session, and a
\* peer that connected after the handover is still waiting.
HandshakeWitness ==
    /\ sessions_started = 1
    /\ accepts >= 3
    /\ socket = "None"
    /\ connection_status = "Connected"
    /\ pending_peers > 0

\* C18: peer drop.  Once a peer has gone away the connection shows Disconnected.
PeerDrop == peer_dropped => connection_status = "Disconnected"

\* the four bytes of the buffer that hold pixel q
PixelBytes(q) == LET i == (q.y * 315 + q.x) * 4 IN i .. (i + 3)

\* C19: color_pixel contract.  A call with a point inside RENDER_RECT (0 <= x < 315,
\* 0 <= y < 143) returns, and the buffer then holds (r, g, b, 255) of the colour at
\* offsets (y * 315 + x) * 4 .. + 3, all below 315 * 143 * 4; a call with any other
\* point aborts; and no byte of the buffer outside the four of a pixel coloured by a
\* returned call has ever been written.
ColorPixelContract ==
    /\ \A q \in DOMAIN painted :
           /\ painted[q].returned <=> (0 <= q.x /\ q.x < 315 /\ 0 <= q.y /\ q.y < 143)
           /\ painted[q].returned =>
                  LET i == (q.y * 315 + q.x) * 4
                      c == painted[q].color
                  IN  /\ i + 3 < 315 * 143 * 4
                      /\ <<BufferByte(buffer, i), BufferByte(buffer, i + 1),
                           BufferByte(buffer, i + 2), BufferByte(buffer, i + 3)>>
                             = <<c.r, c.g, c.b, 255>>
    /\ \A off \in Written(buffer) :
           \E q \in DOMAIN painted : painted[q].returned /\ off \in PixelBytes(q)
    /\ renderer_panicked <=> \E q \in DOMAIN painted : ~painted[q].returned

\* C19 witness: the last pixel of the last row was coloured, and a later call with
\* a point just outside that corner aborted.
ColorPixelContractWitness ==
    /\ renderer_panicked
    /\ \E q \in DOMAIN painted :
           /\ q = [x |-> 314, y |-> 142]
           /\ painted[q].returned
           /\ BufferByte(buffer, 180176) = painted[q].color.r
    /\ \E q \in DOMAIN painted : q.x = 315 /\ ~painted[q].returned

LocalFrameDelay ==
    /\ \A g \in 0 .. (frame - 1) :
           /\ g >= 2 => local_inputs[g + 1] = sampled[g - 1][local_handle]
           /\ used_inputs[g + 1] = sampled[g + 1][1 - local_handle]
    /\ sessions_started > 0 =>
           \A h \in Handles : frame_delay[h] = (IF h = local_handle THEN 2 ELSE 0)

\* C22 witness: four frames were advanced, the local seat pressed a key on the
\* first and second wall frame only, and it took effect on the third and fourth.
LocalFrameDelayWitness ==
    /\ frame = 4
    /\ \A f \in 1 .. 4 : sampled[f][local_handle] = (IF f <= 2 THEN 1 ELSE 0)
    /\ local_inputs = <<0, 0, 1, 1>>

Abs(n) == IF n >= 0 THEN n ELSE -n

\* C23: no overflow.  The velocity components of every player stay within a bound
\* that does not grow with the number of steps taken.  Checked with the number of
\* steps explored as the bound: however many steps are explored, no velocity
\* component has reached that number.
NoOverflow ==
    \A h \in Handles :
        /\ Abs(world[h].velocity.x) < MaxSoloFrame
        /\ Abs(world[h].velocity.y) < MaxSoloFrame

\* the selection, the colours and the marker agree
MenuSelectionState ==
    /\ 0 <= menu_pos /\ menu_pos < Len(MenuEntries)
    /\ \A k \in 1 .. Len(MenuEntries) :
           text_colors[k] = (IF k = menu_pos + 1 THEN PALLET[4] ELSE PALLET[2])
    /\ marker_y = 60 + 10 * menu_pos

\* C27: menu selection consistency.  After every run of Menu::update, pos is an
\* index of an entry, exactly the entry at pos has the selected colour (the fourth
\* of the pallet) and every other entry the second, and the marker is at the
\* menu's y plus 10 * pos; a run that reads only Up at the first entry, or only
\* Down at the last, changes none of the three.
MenuSelection ==
    [][menu_update =>
          /\ MenuSelectionState'
          /\ ((input_stream = <<"Up">> /\ menu_pos = 0)
                 \/ (input_stream = <<"Down">> /\ menu_pos = Len(MenuEntries) - 1)) =>
                UNCHANGED <<menu_pos, text_colors, marker_y>>]_vars

\* C27 witness: after Down, Down, Up, Up, Down read over several runs the second
\* entry is selected.
MenuSelectionWitness ==
    /\ presses >= 3
    /\ input_stream = << >>
    /\ menu_pos = 1
    /\ marker_y = 70
    /\ text_colors = <<PALLET[2], PALLET[4]>>
    /\ app_state = "Menu"
    /\ scheduled = "None"

\* C24: rendering stays inside the framebuffer.  Whatever the font's ink and
\* wherever the player is, drawing the players, the text boxes and the menu
\* marker never aborts, every pixel written lies inside RENDER_RECT, and once
\* the players are drawn the pixels written with a player's colour are exactly
\* the points of its Bounds that lie inside RENDER_RECT.
RenderingInside ==
    /\ ~renderer_panicked
    /\ \A pos \in DOMAIN painted : contains(RENDER_RECT, pos) /\ painted[pos].returned
    /\ ("Player" \in drawn /\ "TextBox" \notin drawn) =>
          \A h \in Handles :
             {pos \in DOMAIN painted : painted[pos].color = arbitrary_color(h)}
                = {pos \in Points(world[h].bounds) : contains(RENDER_RECT, pos)}

\* C24 witness: a player that lies across the right and the bottom edge has been
\* drawn, and so has the text.
RenderingInsideWitness ==
    /\ drawn = {"Player", "TextBox"}
    /\ world[0].bounds.origin.x > RENDER_RECT.size.width - 10
    /\ world[0].bounds.origin.y > RENDER_RECT.size.height - 10
    /\ font = "corners"
    /\ [x |-> RENDER_RECT.size.width - 1, y |-> RENDER_RECT.size.height - 1] \in DOMAIN painted
    /\ [x |-> 10, y |-> 40] \in DOMAIN painted

\* the pixels a call of draw_tile is to write: origin + tp for the points tp of
\* the sprite whose pallet index is Color2
InkTargets(c) ==
    {[x |-> c.origin.x + tp.x, y |-> c.origin.y + tp.y] :
        tp \in {q \in Points([origin |-> [x |-> 0, y |-> 0], size |-> c.sheet[c.tile].size]) :
                  c.sheet[c.tile].data[q.y * c.sheet[c.tile].size.width + q.x + 1] = "Color2"}}

\* C25: draw_tile.  A call with a key of the sheet that returns has written the
\* ink colour on exactly the pixels origin + tp whose pallet index is Color2, on
\* no other pixel, and returns the sprite's size; it aborts only in color_pixel,
\* on such a pixel outside RENDER_RECT.  A call with a key that is not in the
\* sheet aborts and writes nothing.
DrawTileContract ==
    tile_call.outcome \in {"Aborted", "Returned"} =>
        IF tile_call.tile \notin DOMAIN tile_call.sheet
        THEN renderer_panicked /\ painted = << >> /\ buffer = << >>
        ELSE IF tile_call.outcome = "Aborted"
        THEN /\ renderer_panicked
             /\ \E t \in InkTargets(tile_call) : ~contains(RENDER_RECT, t)
             /\ DOMAIN painted \subseteq InkTargets(tile_call)
        ELSE /\ tile_call.size = tile_call.sheet[tile_call.tile].size
             /\ DOMAIN painted = InkTargets(tile_call)
             /\ \A pos \in DOMAIN painted :
                   painted[pos] = [color |-> tile_call.color, returned |-> TRUE]
             /\ Written(buffer) =
                   UNION {{(pos.y * RENDER_RECT.size.width + pos.x) * BYTES_PER_PIXEL + k :
                             k \in 0 .. (BYTES_PER_PIXEL - 1)} : pos \in DOMAIN painted}

\* C25 witness: a sprite two wide and two high of which two points are ink and
\* the others are of another pallet index has been drawn, and its size returned.
DrawTileWitness ==
    /\ tile_call.outcome = "Returned"
    /\ tile_call.size = [width |-> 2, height |-> 2]
    /\ tile_call.sheet["a"].data = <<"Color2", "Color3", "Color3", "Color2">>
    /\ DOMAIN painted = {[x |-> 0, y |-> 0], [x |-> 1, y |-> 1]}

\* points are the first of the row-major walk of rect: row by row from the top,
\* each row from the left
RowMajor(points, rect) ==
    \A k \in 1 .. Len(points) :
        points[k] = [x |-> rect.origin.x + ((k - 1) % rect.size.width),
                     y |-> rect.origin.y + ((k - 1) \div rect.size.width)]

\* C26: background fill.  draw_background colours the points of RENDER_RECT in
\* row-major order and returns after colouring every point once, and then every
\* pixel of the buffer holds the first colour of the pallet with alpha 255; a
\* PointIterator over any rectangle yields its points once each in row-major
\* order, and none when the width or the height is zero.
BackgroundFill ==
    /\ background.outcome # "Aborted"
    /\ RowMajor(background.points, RENDER_RECT)
    /\ Len(background.points) <= RENDER_RECT.size.width * RENDER_RECT.size.height
    /\ background.outcome = "Returned" =>
          /\ Len(background.points) = RENDER_RECT.size.width * RENDER_RECT.size.height
          /\ Written(buffer) = 0 .. (BufferLen - 1)
          /\ \A off \in 0 .. (BufferLen - 1) :
                buffer[off + 1] = <<PALLET[1].r, PALLET[1].g, PALLET[1].b, 255>>[(off % 4) + 1]
    /\ iterated.outcome = "Returned" =>
          /\ RowMajor(iterated.points, iterated.rect)
          /\ Len(iterated.points) = iterated.rect.size.width * iterated.rect.size.height
          /\ (iterated.rect.size.width = 0 \/ iterated.rect.size.height = 0) =>
                iterated.points = << >>

\* C26 witness: draw_background has coloured the first two rows, the iterator
\* having wrapped from the right side of the first row to the left of the second.
BackgroundFillWitness ==
    /\ background.outcome = "Running"
    /\ Len(background.points) = 2 * RENDER_RECT.size.width
    /\ background.points[RENDER_RECT.size.width] = [x |-> RENDER_RECT.size.width - 1, y |-> 0]
    /\ background.points[RENDER_RECT.size.width + 1] = [x |-> 0, y |-> 1]
    /\ BufferByte(buffer, RENDER_RECT.size.width * BYTES_PER_PIXEL) = PALLET[1].r
    /\ BufferByte(buffer, RENDER_RECT.size.width * BYTES_PER_PIXEL + 3) = 255

\* C28: input queue delivery.  In any interleaving of sends and gets, the Inputs
\* get has returned followed by the Inputs still queued are the Inputs sent, in
\* the order sent: none is lost, none comes twice.  get can always be called,
\* returns at once, and returns None exactly when the queue is empty; otherwise
\* it returns the oldest queued Input.
QueueDelivery ==
    [][/\ sent' = received' \o input_stream'
       /\ ENABLED get
       /\ get => /\ got' = "None" <=> input_stream = << >>
                 /\ got' # "None" => (got' = Head(input_stream) /\ received' = Append(received, got'))
                 /\ got' = "None" => UNCHANGED <<received, input_stream>>]_vars

\* C28 witness: four Inputs were sent, two of them the same; get has returned the
\* first three in the order sent and a send came after a get that found the queue
\* empty.
QueueDeliveryWitness ==
    /\ sent = <<"Up", "Down", "Up", "Primary">>
    /\ received = <<"Up", "Down", "Up">>
    /\ input_stream = <<"Primary">>
    /\ got = "None"

\* the player is at the spawn point and at rest
AtSpawnAtRest ==
    /\ world[0].bounds.origin = [x |-> 10, y |-> 10]
    /\ world[0].velocity = [x |-> 0, y |-> 0]

\* the player stands on the ground
OnGround ==
    /\ world[0].bounds.origin.y + world[0].bounds.size.height = RENDER_RECT.size.height
    /\ world[0].velocity.y = 0

\* C29: the idle player lands.  From the spawn state (origin.y = 10, size 10 x 10,
\* velocity (0, 0)), with no Input on any tick, the player eventually reaches the
\* ground (origin.y + height = H) and from then on stays there with v.y = 0.
IdlePlayerLands == AtSpawnAtRest ~> []OnGround

\* C30: no player is lost off-screen.  A player with a constant horizontal
\* velocity other than zero, of either sign, and no Input has Bounds that
\* intersect RENDER_RECT again and again: it never stays outside for ever.
NoPlayerLost ==
    [](world[0].velocity.x # 0 => <>Intersects(RENDER_RECT, world[0].bounds))

=============================================================================
